---- MODULE Spec2Model ----
(***************************************************************************)
(* Model of program_statistics.c: a MIPS trace is read into an array of    *)
(* (addr, word) records, every record is decoded with bitsAt and folded    *)
(* into a Stats record by getStat.                                         *)
(*                                                                         *)
(* A uint64_t is kept at its full width as four 16-bit limbs, least        *)
(* significant first, so that the mask arithmetic of bitsAt, the (int)     *)
(* cast of its result and the conversion of addresses to long behave as    *)
(* they do in C.                                                           *)
(***************************************************************************)
EXTENDS Integers, Sequences, FiniteSets, TLC

VARIABLES
    \* bitsAt(word, start, end) called on its own
    word, start, end, ret, pcBits,
    \* addReadWrite(&stats, &in) called on its own
    in, rwStats, pcRW,
    \* getStat(list, count): the fold
    count, i, stats, prev, pcStat,
    \* main: the read loop
    stream, pos, counter, oob, passed, pcMain

vars == <<word, start, end, ret, pcBits, in, rwStats, pcRW,
          count, i, stats, prev, pcStat,
          stream, pos, counter, oob, passed, pcMain>>

bitsVars == <<word, start, end, ret, pcBits>>
rwVars   == <<in, rwStats, pcRW>>
statVars == <<count, i, stats, prev, pcStat>>
mainVars == <<stream, pos, counter, oob, passed, pcMain>>

----------------------------------------------------------------------------
(* uint64_t arithmetic on limbs *)

LimbBits == 16
Limb == 2 ^ LimbBits
NumLimbs == 4
WordBits == LimbBits * NumLimbs

U64Zero == <<0, 0, 0, 0>>
U64One  == <<1, 0, 0, 0>>

\* limb l (1 = least significant) of w, 0 beyond either end
LimbAt(w, l) == IF l >= 1 /\ l <= NumLimbs THEN w[l] ELSE 0

\* w << n for 0 <= n < 64: bits shifted past bit 63 are lost
Shl(w, n) ==
    LET q == n \div LimbBits
        r == n % LimbBits
    IN  [l \in 1..NumLimbs |->
            (LimbAt(w, l - q) % (2 ^ (LimbBits - r))) * (2 ^ r)
              + (LimbAt(w, l - q - 1) \div (2 ^ (LimbBits - r)))]

\* w >> n for 0 <= n < 64: zeros come in at the top
Shr(w, n) ==
    LET q == n \div LimbBits
        r == n % LimbBits
    IN  [l \in 1..NumLimbs |->
            (LimbAt(w, l + q) \div (2 ^ r))
              + (LimbAt(w, l + q + 1) % (2 ^ r)) * (2 ^ (LimbBits - r))]

\* bit k of the limb x
LimbBit(x, k) == (x \div (2 ^ k)) % 2

\* bits 0..k of x & y, for limbs x and y
RECURSIVE AndBits(_, _, _)
AndBits(x, y, k) ==
    IF k < 0 THEN 0
    ELSE LimbBit(x, k) * LimbBit(y, k) * (2 ^ k) + AndBits(x, y, k - 1)

\* x & y for limbs x and y (an all-zero or all-one limb needs no bitwise pass)
AndLimb(x, y) ==
    CASE x = 0 \/ y = 0 -> 0
      [] x = Limb - 1 -> y
      [] y = Limb - 1 -> x
      [] OTHER -> AndBits(x, y, LimbBits - 1)

\* a & b
And(a, b) == [l \in 1..NumLimbs |-> AndLimb(a[l], b[l])]

RECURSIVE SubLimbs(_, _, _, _)
SubLimbs(a, b, l, borrow) ==
    IF l > NumLimbs THEN <<>>
    ELSE LET d == a[l] - b[l] - borrow
         IN  <<IF d < 0 THEN d + Limb ELSE d>>
               \o SubLimbs(a, b, l + 1, IF d < 0 THEN 1 ELSE 0)

\* a - b modulo 2^64 (unsigned arithmetic wraps)
Sub(a, b) == SubLimbs(a, b, 1, 0)

\* (int) w : the low 32 bits of w read as a two's complement int
ToInt(w) ==
    IF w[2] < Limb \div 2 THEN w[2] * Limb + w[1]
                          ELSE (w[2] - Limb) * Limb + w[1]

\* sign bit of w read as a long
Neg(w) == w[NumLimbs] >= Limb \div 2

----------------------------------------------------------------------------
(* bitsAt *)

\* 1ULL << n.  A shift by the full width of the type is undefined: the
\* hardware either masks the count (1 << 0) or shifts the bit out.
ShlOne(n) == IF n < WordBits THEN {Shl(U64One, n)} ELSE {U64One, U64Zero}

\* the values bitsAt(word, start, end) can return
bitsAtSet(w, s, e) ==
    { ToInt(Shr(And(w, Shl(Sub(one, U64One), s)), s)) : one \in ShlOne(e - s + 1) }

\* bitsAt for a range narrower than the type, where it has one value
bitsAt(w, s, e) == CHOOSE v \in bitsAtSet(w, s, e) : TRUE

----------------------------------------------------------------------------
(* Instruction, Stats and the classifier rules *)

NumRegs == 32
read == 0
write == 1

\* Stats stats = {0}
ZeroStats ==
    [insts |-> 0, rType |-> 0, iType |-> 0, jType |-> 0,
     fwdTaken |-> 0, bkwTaken |-> 0, notTaken |-> 0,
     loads |-> 0, stores |-> 0, arith |-> 0,
     reg |-> [n \in 0..(NumRegs - 1) |-> [c \in {read, write} |-> 0]]]

getOp(op) ==
    CASE op = 0 -> "r"
      [] op \in {2, 3} -> "j"
      [] OTHER -> "i"

\* the field extraction of getStat's loop body (lines 181-189)
Decode(addr, w) ==
    LET op == bitsAt(w, 26, 31)
    IN  [addr |-> addr, word |-> w,
         op |-> op,
         rs |-> bitsAt(w, 21, 25),
         rt |-> bitsAt(w, 16, 20),
         rd |-> bitsAt(w, 11, 15),
         shamt |-> bitsAt(w, 6, 10),
         funct |-> bitsAt(w, 0, 5),
         imm |-> bitsAt(w, 0, 15),
         jAddr |-> bitsAt(w, 0, 25),
         type |-> getOp(op)]

\* addType with the jType++ of case j lost
addType_NoJ(s, type) ==
    CASE type = "r" -> [s EXCEPT !.rType = @ + 1]
      [] type = "i" -> [s EXCEPT !.iType = @ + 1]
      [] type = "j" -> s

addType(s, type) ==
    CASE type = "r" -> [s EXCEPT !.rType = @ + 1]
      [] type = "i" -> [s EXCEPT !.iType = @ + 1]
      [] type = "j" -> [s EXCEPT !.jType = @ + 1]

addToLoad(s, op) ==
    CASE op \in {32, 36, 33, 37, 35} -> [s EXCEPT !.loads = @ + 1]
      [] op \in {40, 41, 43} -> [s EXCEPT !.stores = @ + 1]
      [] OTHER -> s

addArith(s, op, funct) ==
    IF op = 0
    THEN IF funct \in {32, 33, 34, 35, 24, 25, 26, 27, 16, 18, 0, 1}
         THEN [s EXCEPT !.arith = @ + 1] ELSE s
    ELSE IF op \in {8, 9} THEN [s EXCEPT !.arith = @ + 1] ELSE s

\* stats->reg[n][c] += d
Bump(s, n, c, d) == [s EXCEPT !.reg[n][c] = @ + d]

\* case r: with the jr exception for rd and rs left out
addReadWriteR_NoJrFix(s, ins) ==
    LET s1 == Bump(s, ins.rd, write, 1)
        s2 == Bump(s1, ins.rs, read, 1)
        s3 == Bump(s2, ins.rt, read, 1)
    IN  CASE ins.funct \in {0, 2, 3} -> Bump(s3, ins.rs, read, -1)
          [] OTHER -> s3

\* case r of the switch on in->type
addReadWriteR(s, ins) ==
    LET s1 == Bump(s, ins.rd, write, 1)
        s2 == Bump(s1, ins.rs, read, 1)
        s3 == Bump(s2, ins.rt, read, 1)
    IN  CASE ins.funct = 8 ->
               Bump(Bump(s3, ins.rd, write, -1), ins.rt, read, -1)
          [] ins.funct \in {0, 2, 3} -> Bump(s3, ins.rs, read, -1)
          [] OTHER -> s3

\* case i: with 0x38 missing from the store family
addReadWriteI_No38(s, ins) ==
    LET s1 == Bump(s, ins.rt, write, 1)
        s2 == Bump(s1, ins.rs, read, 1)
    IN  CASE ins.op = 15 -> Bump(s2, ins.rs, read, -1)
          [] ins.op \in {4, 5} ->
               Bump(Bump(s2, ins.rt, write, -1), ins.rt, read, 1)
          [] ins.op \in {40, 41, 43} ->
               Bump(Bump(s2, ins.rt, read, 1), ins.rt, write, -1)
          [] OTHER -> s2

\* case i of the switch on in->type
addReadWriteI(s, ins) ==
    LET s1 == Bump(s, ins.rt, write, 1)
        s2 == Bump(s1, ins.rs, read, 1)
    IN  CASE ins.op = 15 -> Bump(s2, ins.rs, read, -1)
          [] ins.op \in {4, 5} ->
               Bump(Bump(s2, ins.rt, write, -1), ins.rt, read, 1)
          [] ins.op \in {40, 41, 43, 56} ->
               Bump(Bump(s2, ins.rt, read, 1), ins.rt, write, -1)
          [] OTHER -> s2

\* default: of the switch on in->type
addReadWriteJ(s, ins) ==
    IF ins.op = 3
    THEN Bump(Bump(Bump(s, ins.rt, write, -1), ins.rs, read, -1),
              NumRegs - 1, write, 1)
    ELSE s

addReadWrite(s, ins) ==
    CASE ins.type = "r" -> addReadWriteR(s, ins)
      [] ins.type = "i" -> addReadWriteI(s, ins)
      [] OTHER -> addReadWriteJ(s, ins)

\* long diff = inAddr - prevAddr overflows the long
DiffOverflows(prevAddr, inAddr) ==
    /\ Neg(inAddr) # Neg(prevAddr)
    /\ Neg(Sub(inAddr, prevAddr)) # Neg(inAddr)

\* the long d is > 4
GreaterThan4(d) == ~Neg(d) /\ (d[4] > 0 \/ d[3] > 0 \/ d[2] > 0 \/ d[1] > 4)

\* Which of the tests on diff succeeds.  The arguments are the uint64_t
\* addresses converted to long (same bits).  Signed overflow of the
\* subtraction is undefined: any of the three outcomes can be produced.
diffClass(prevAddr, inAddr) ==
    IF DiffOverflows(prevAddr, inAddr) THEN {"gt4", "neg", "other"}
    ELSE LET diff == Sub(inAddr, prevAddr)
         IN  IF GreaterThan4(diff) THEN {"gt4"}
             ELSE IF Neg(diff) THEN {"neg"} ELSE {"other"}

\* the Stats addBranchCount can leave
addBranchCount(s, prevAddr, inAddr, prevOp) ==
    { CASE c = "gt4" -> [s EXCEPT !.fwdTaken = @ + 1]
        [] c = "neg" -> [s EXCEPT !.bkwTaken = @ + 1]
        [] OTHER -> IF prevOp \in {4, 5} THEN [s EXCEPT !.notTaken = @ + 1] ELSE s
      : c \in diffClass(prevAddr, inAddr) }

----------------------------------------------------------------------------
(* Inputs: what fscanf("%lx %lx") can have stored in list[n].addr, .word *)

MaxCount == 2
MaxReg == 1
MaxSmall == 2
MaxOverrun == 2

\* the 32-bit instruction word with the given fields, as a uint64_t
MkWord(op, rs, rt, rd, shamt, funct) ==
    <<rd * 2048 + shamt * 64 + funct, op * 1024 + rs * 32 + rt, 0, 0>>

\* add $3,$1,$2; jr $31; beq $1,$2; jal 0x00400000; sw $2,0($1); lw $2,0($1)
WordSamples ==
    { MkWord(0, 1, 2, 3, 0, 32), MkWord(0, 31, 0, 0, 0, 8),
      MkWord(4, 1, 2, 0, 0, 3), MkWord(3, 0, 16, 0, 0, 0),
      MkWord(43, 1, 2, 0, 0, 0), MkWord(35, 1, 2, 0, 0, 0) }

\* 0x0, 0xff0, 0x1000, 0x1004, 0x1010, 0x8000000000000000
AddrSamples ==
    { <<0, 0, 0, 0>>, <<4080, 0, 0, 0>>, <<4096, 0, 0, 0>>,
      <<4100, 0, 0, 0>>, <<4112, 0, 0, 0>>, <<0, 0, 0, 32768>> }

\* list[n] after the field extraction, for every sampled record
StatInputs == { Decode(a, w) : a \in AddrSamples, w \in WordSamples }

RegSamples == (0..MaxReg) \cup {NumRegs - 1}

\* every opcode; every funct under opcode 0, two functs under the others
OpFunctSamples ==
    { <<0, f>> : f \in 0..63 } \cup { <<o, f>> : o \in 1..63, f \in {0, 8} }

RWInputs ==
    { Decode(U64Zero, MkWord(of[1], rs, rt, rd, 0, of[2])) :
          of \in OpFunctSamples, rs \in RegSamples, rt \in RegSamples, rd \in RegSamples }

\* a Stats whose counters all hold b
FlatStats(b) ==
    [insts |-> b, rType |-> b, iType |-> b, jType |-> b,
     fwdTaken |-> b, bkwTaken |-> b, notTaken |-> b,
     loads |-> b, stores |-> b, arith |-> b,
     reg |-> [n \in 0..(NumRegs - 1) |-> [c \in {read, write} |-> b]]]

RWStats == { ZeroStats, FlatStats(5) }

\* 0, 1, 0x7fffffff, 0x80000000, 0xffffffff, 0x100000000, 2^63, 2^64-1,
\* and two instruction words
BitsWords ==
    { U64Zero, U64One, <<65535, 32767, 0, 0>>, <<0, 32768, 0, 0>>,
      <<65535, 65535, 0, 0>>, <<0, 0, 1, 0>>, <<0, 0, 0, 32768>>,
      <<65535, 65535, 65535, 65535>>,
      MkWord(0, 1, 2, 3, 0, 32), MkWord(43, 31, 17, 21, 10, 42) }

\* the ranges getStat extracts, and wider ones up to the whole word
BitsRanges ==
    { <<26, 31>>, <<21, 25>>, <<16, 20>>, <<11, 15>>, <<6, 10>>, <<0, 5>>,
      <<0, 15>>, <<0, 25>>, <<0, 30>>, <<0, 31>>, <<32, 63>>, <<0, 63>> }

\* Instruction list[1000]
ListCap == 1000

\* The input file: `records` complete records "<hex> <hex>" followed by the
\* tokens of `tail`, each "hex" (a hexadecimal number) or "bad" (a token
\* that does not start with a hexadecimal digit).
StreamSizes == (0..MaxSmall) \cup {ListCap - 1, ListCap, ListCap + 1}
StreamTails ==
    { <<>>, <<"bad">>, <<"hex">>, <<"hex", "bad">>, <<"bad", "hex", "hex">> }
MainStreams == { [records |-> n, tail |-> t] : n \in StreamSizes, t \in StreamTails }

----------------------------------------------------------------------------
(* Idle values of the variables a specification does not use *)

\* Instruction *prev is the empty sequence when NULL, else <<the record
\* it points to>>
NULL == <<>>

BitsIdle == word = U64Zero /\ start = 0 /\ end = 0 /\ ret = 0 /\ pcBits = "idle"
RWIdle   == in = Decode(U64Zero, U64Zero) /\ rwStats = ZeroStats /\ pcRW = "idle"
StatIdle == count = 0 /\ i = 0 /\ stats = ZeroStats /\ prev = NULL /\ pcStat = "idle"
MainIdle ==
    /\ stream = [records |-> 0, tail |-> <<>>]
    /\ pos = 0 /\ counter = 0 /\ oob = FALSE /\ passed = -1 /\ pcMain = "idle"

----------------------------------------------------------------------------
(* bitsAt on its own *)

InitBits ==
    /\ word \in BitsWords
    /\ \E r \in BitsRanges : start = r[1] /\ end = r[2]
    /\ ret = 0
    /\ pcBits = "call"
    /\ RWIdle /\ StatIdle /\ MainIdle

BitsAtCall ==
    /\ pcBits = "call"
    /\ ret' \in bitsAtSet(word, start, end)
    /\ pcBits' = "ret"
    /\ UNCHANGED <<word, start, end>>
    /\ UNCHANGED <<rwVars, statVars, mainVars>>

NextBits == BitsAtCall

SpecBits == InitBits /\ [][NextBits]_vars

----------------------------------------------------------------------------
(* addReadWrite on its own *)

InitRW ==
    /\ in \in RWInputs
    /\ rwStats \in RWStats
    /\ pcRW = "call"
    /\ BitsIdle /\ StatIdle /\ MainIdle

AddReadWriteCall ==
    /\ pcRW = "call"
    /\ rwStats' = addReadWrite(rwStats, in)
    /\ pcRW' = "ret"
    /\ UNCHANGED in
    /\ UNCHANGED <<bitsVars, statVars, mainVars>>

NextRW == AddReadWriteCall

SpecRW == InitRW /\ [][NextRW]_vars

----------------------------------------------------------------------------
(* getStat: the fold over list[0 .. count-1] *)


InitStat ==
    /\ count \in 0..MaxCount
    /\ i = 0
    /\ stats = ZeroStats
    /\ prev = NULL
    /\ pcStat = "loop"
    /\ BitsIdle /\ RWIdle /\ MainIdle

\* one iteration of the for loop, list[i] being any sampled record
GetStatIter ==
    /\ pcStat = "loop"
    /\ i < count
    /\ \E ins \in StatInputs :
         LET s1 == [stats EXCEPT !.insts = @ + 1]
             s2 == addType(s1, ins.type)
             s3 == addToLoad(s2, ins.op)
             s4 == addArith(s3, ins.op, ins.funct)
             s5 == addReadWrite(s4, ins)
         IN  /\ stats' \in (IF prev # NULL
                            THEN addBranchCount(s5, prev[1].addr, ins.addr, prev[1].op)
                            ELSE {s5})
             /\ prev' = <<ins>>
    /\ i' = i + 1
    /\ UNCHANGED <<count, pcStat>>
    /\ UNCHANGED <<bitsVars, rwVars, mainVars>>

\* i == count: return stats
GetStatReturn ==
    /\ pcStat = "loop"
    /\ i >= count
    /\ pcStat' = "done"
    /\ UNCHANGED <<count, i, stats, prev>>
    /\ UNCHANGED <<bitsVars, rwVars, mainVars>>

NextStat == GetStatIter \/ GetStatReturn

Spec == InitStat /\ [][NextStat]_vars

----------------------------------------------------------------------------
(* main: the read loop *)

EOF == -1

\* the token at position p of the input, "eof" past its end
TokenAt(st, p) ==
    IF p < 2 * st.records THEN "hex"
    ELSE IF p - 2 * st.records < Len(st.tail) THEN st.tail[p - 2 * st.records + 1]
    ELSE "eof"

\* fscanf(inFile, "%lx %lx", ...) with the input at position p: the value
\* returned (EOF only when the input ends before the first conversion; a
\* token that does not match is left in the input) and the new position
fscanf(st, p) ==
    CASE TokenAt(st, p) = "eof" -> [ret |-> EOF, pos |-> p]
      [] TokenAt(st, p) = "bad" -> [ret |-> 0, pos |-> p]
      [] TokenAt(st, p) = "hex" /\ TokenAt(st, p + 1) = "hex" -> [ret |-> 2, pos |-> p + 2]
      [] OTHER -> [ret |-> 1, pos |-> p + 1]

InitMain ==
    /\ stream \in MainStreams
    /\ pos = 0 /\ counter = 0 /\ oob = FALSE /\ passed = -1
    /\ pcMain = "open"
    /\ BitsIdle /\ RWIdle /\ StatIdle

\* fopen of trace.txt or statistics.txt fails: return 1
FopenFail ==
    /\ pcMain = "open"
    /\ pcMain' = "exit1"
    /\ UNCHANGED <<stream, pos, counter, oob, passed>>
    /\ UNCHANGED <<bitsVars, rwVars, statVars>>

FopenOk ==
    /\ pcMain = "open"
    /\ pcMain' = "read"
    /\ UNCHANGED <<stream, pos, counter, oob, passed>>
    /\ UNCHANGED <<bitsVars, rwVars, statVars>>

\* one pass of the while loop that stores nothing outside list: fscanf
\* did not return EOF, so counter++
ReadRecord ==
    /\ pcMain = "read"
    /\ counter < ListCap + MaxOverrun
    /\ LET r == fscanf(stream, pos)
       IN  /\ r.ret # EOF
           /\ r.ret = 0 \/ counter < ListCap
           /\ pos' = r.pos
    /\ counter' = counter + 1
    /\ UNCHANGED <<stream, oob, passed, pcMain>>
    /\ UNCHANGED <<bitsVars, rwVars, statVars>>

\* one pass in which fscanf stores into list[counter] with counter >= 1000.
\* The store is undefined: the program goes on with the loop, or dies.
ReadPastEnd ==
    /\ pcMain = "read"
    /\ counter < ListCap + MaxOverrun
    /\ LET r == fscanf(stream, pos)
       IN  /\ r.ret # EOF
           /\ r.ret >= 1 /\ counter >= ListCap
           /\ pos' = r.pos
    /\ oob' = TRUE
    /\ counter' = counter + 1
    /\ pcMain' \in {"read", "crashed"}
    /\ UNCHANGED <<stream, passed>>
    /\ UNCHANGED <<bitsVars, rwVars, statVars>>

\* fscanf returns EOF: the loop ends, getStat(list, counter) is called
ReadEOF ==
    /\ pcMain = "read"
    /\ fscanf(stream, pos).ret = EOF
    /\ passed' = counter
    /\ pcMain' = "getStat"
    /\ UNCHANGED <<stream, pos, counter, oob>>
    /\ UNCHANGED <<bitsVars, rwVars, statVars>>

\* printStats, fclose, return 0
MainReturn ==
    /\ pcMain = "getStat"
    /\ pcMain' = "exit0"
    /\ UNCHANGED <<stream, pos, counter, oob, passed>>
    /\ UNCHANGED <<bitsVars, rwVars, statVars>>

NextMain == FopenFail \/ FopenOk \/ ReadRecord \/ ReadPastEnd \/ ReadEOF \/ MainReturn

SpecMain == InitMain /\ [][NextMain]_vars

----------------------------------------------------------------------------
(* Properties of the format tally (getOp, addType, getStat) *)

\* C1: after getStat has folded any prefix of any trace, the empty one
\* included, insts = rType + iType + jType; and every instruction adds one
\* to insts and to exactly one format counter, chosen by its opcode:
\* 0x00 -> R, 0x02 and 0x03 -> J, every other opcode -> I.
C1_FormatSum ==
    /\ [](stats.insts = stats.rType + stats.iType + stats.jType)
    /\ [][i' = i + 1 =>
            LET op == prev'[1].op
                dR == stats'.rType - stats.rType
                dI == stats'.iType - stats.iType
                dJ == stats'.jType - stats.jType
            IN  /\ stats'.insts = stats.insts + 1
                /\ <<dR, dI, dJ>> = (CASE op = 0 -> <<1, 0, 0>>
                                       [] op \in {2, 3} -> <<0, 0, 1>>
                                       [] OTHER -> <<0, 1, 0>>)]_vars

\* a fold of two records, one R-type and one J-type, has returned
C1_Witness ==
    /\ pcStat = "done"
    /\ stats.insts = 2 /\ stats.rType = 1 /\ stats.jType = 1

----------------------------------------------------------------------------
(* Properties of the register tally (addReadWrite) *)

\* 1 when the table entry (n, c) is the entry (m, d), else 0
Hit(n, c, m, d) == IF n = m /\ c = d THEN 1 ELSE 0

\* s with delta(n, c) added to every entry of its register table
WithDelta(s, delta(_, _)) ==
    [s EXCEPT !.reg = [n \in 0..(NumRegs - 1) |->
                          [c \in {read, write} |-> s.reg[n][c] + delta(n, c)]]]

\* C2: for every instruction with opcode 0x03 (jal), whatever its rs and rt
\* fields, addReadWrite adds one to the write count of register 31 and
\* changes no other entry of the register table.
C2_JalOnlyLinks ==
    [][(pcRW = "call" /\ in.op = 3) =>
          LET d(n, c) == Hit(n, c, NumRegs - 1, write)
          IN  rwStats' = WithDelta(rwStats, d)]_vars

\* C3: for every R-type instruction and every rs, rt, rd (equal or not),
\* addReadWrite changes the register table by: funct 0x08 -> read[rs] + 1
\* only; funct 0x00, 0x02, 0x03 -> write[rd] + 1 and read[rt] + 1; any
\* other funct -> write[rd] + 1, read[rs] + 1, read[rt] + 1; it changes no
\* other entry and no other counter.
C3_RTypeEffect ==
    [][(pcRW = "call" /\ in.op = 0) =>
          LET d(n, c) ==
                CASE in.funct = 8 -> Hit(n, c, in.rs, read)
                  [] in.funct \in {0, 2, 3} ->
                       Hit(n, c, in.rd, write) + Hit(n, c, in.rt, read)
                  [] OTHER ->
                       Hit(n, c, in.rd, write) + Hit(n, c, in.rs, read)
                         + Hit(n, c, in.rt, read)
          IN  rwStats' = WithDelta(rwStats, d)]_vars

\* addReadWrite has returned for a jr whose rs, rt and rd are one register:
\* that register has one read and no write
C3_Witness ==
    /\ pcRW = "ret"
    /\ in.op = 0 /\ in.funct = 8
    /\ in.rs = in.rt /\ in.rt = in.rd
    /\ rwStats.reg[in.rs][read] = 1
    /\ rwStats.reg[in.rd][write] = 0

\* C4: for every I-type instruction addReadWrite changes the register table
\* by: opcode 0x0f -> write[rt] + 1 only; opcodes 0x04, 0x05, 0x28, 0x29,
\* 0x2b, 0x38 -> read[rs] + 1 and read[rt] + 1 (read[rs] + 2 when rs = rt)
\* and no write; any other I-type opcode -> write[rt] + 1 and read[rs] + 1;
\* it changes no other entry.
C4_ITypeEffect ==
    [][(pcRW = "call" /\ in.op \notin {0, 2, 3}) =>
          LET d(n, c) ==
                CASE in.op = 15 -> Hit(n, c, in.rt, write)
                  [] in.op \in {4, 5, 40, 41, 43, 56} ->
                       Hit(n, c, in.rs, read) + Hit(n, c, in.rt, read)
                  [] OTHER -> Hit(n, c, in.rt, write) + Hit(n, c, in.rs, read)
          IN  rwStats' = WithDelta(rwStats, d)]_vars

\* addReadWrite has returned for an opcode 0x38 instruction with rs = rt:
\* the register has two reads and no write
C4_Witness ==
    /\ pcRW = "ret"
    /\ in.op = 56
    /\ in.rs = in.rt
    /\ rwStats.reg[in.rs][read] = 2
    /\ rwStats.reg[in.rt][write] = 0

\* C10: after getStat has folded any trace, every read count and every
\* write count of the register table is >= 0 and at most twice the number
\* of instructions folded.
C10_RegCountsValid ==
    \A n \in 0..(NumRegs - 1) : \A c \in {read, write} :
        stats.reg[n][c] >= 0 /\ stats.reg[n][c] <= 2 * stats.insts

----------------------------------------------------------------------------
(* Properties of the branch tally (addBranchCount, getStat) *)

\* a < b as unsigned 64-bit numbers
ULess(a, b) ==
    \E l \in 1..NumLimbs :
        a[l] < b[l] /\ \A m \in (l + 1)..NumLimbs : a[m] = b[m]

\* the sign and size of the address inAddr minus the address prevAddr
AddrDiff(prevAddr, inAddr) ==
    IF ULess(inAddr, prevAddr) THEN "neg"
    ELSE LET d == Sub(inAddr, prevAddr)
         IN  IF d[4] > 0 \/ d[3] > 0 \/ d[2] > 0 \/ d[1] > 4 THEN "gt4" ELSE "other"

\* what a step of the fold adds to <<fwdTaken, bkwTaken, notTaken>>
BranchDelta ==
    <<stats'.fwdTaken - stats.fwdTaken, stats'.bkwTaken - stats.bkwTaken,
      stats'.notTaken - stats.notTaken>>

\* C5: the first instruction of a trace changes none of fwdTaken, bkwTaken,
\* notTaken; each later one, with diff its address minus the previous
\* address, adds one to fwdTaken alone if diff > 4, to bkwTaken alone if
\* diff < 0, to notTaken alone if 0 <= diff <= 4 and the previous opcode is
\* 0x04 or 0x05, and to none of them otherwise.
C5_BranchClass ==
    [][i' = i + 1 =>
          BranchDelta =
            (IF prev = NULL THEN <<0, 0, 0>>
             ELSE CASE AddrDiff(prev[1].addr, prev'[1].addr) = "gt4" -> <<1, 0, 0>>
                    [] AddrDiff(prev[1].addr, prev'[1].addr) = "neg" -> <<0, 1, 0>>
                    [] OTHER -> IF prev[1].op \in {4, 5} THEN <<0, 0, 1>>
                                                       ELSE <<0, 0, 0>>)]_vars

\* C8: notTaken is incremented at an instruction only if the previous
\* instruction has opcode 0x04 or 0x05 and the instruction's address is the
\* previous address + 4.
C8_NotTakenIsFallThrough ==
    [][stats'.notTaken # stats.notTaken =>
          /\ prev # NULL
          /\ prev[1].op \in {4, 5}
          /\ ~ULess(prev'[1].addr, prev[1].addr)
          /\ Sub(prev'[1].addr, prev[1].addr) = <<4, 0, 0, 0>>]_vars

----------------------------------------------------------------------------
(* Properties of bitsAt *)

\* C7: for every 64-bit word w, bitsAt(w, 0, 63) returns a value equal to w.
C7_FullRangeIsIdentity ==
    (pcBits = "ret" /\ start = 0 /\ end = WordBits - 1) =>
        (ret >= 0 /\ word = <<ret % Limb, ret \div Limb, 0, 0>>)

----------------------------------------------------------------------------
(* Properties of the read loop of main *)

\* the input holds a token that does not parse as hexadecimal
Malformed(st) == \E k \in 1..Len(st.tail) : st.tail[k] = "bad"

\* the complete records in front of the first such token
WellFormedBefore(st) ==
    LET k == CHOOSE k \in 1..Len(st.tail) :
                 st.tail[k] = "bad" /\ \A m \in 1..(k - 1) : st.tail[m] # "bad"
    IN  st.records + ((k - 1) \div 2)

\* C6: when the input holds a token pair that does not parse as
\* hexadecimal, the read loop stops at that first failure: the record count
\* never goes beyond the number of well-formed records in front of it, and
\* that is the count getStat is called with.
C6_StopsAtMalformed ==
    Malformed(stream) =>
        /\ counter <= WellFormedBefore(stream)
        /\ pcMain \in {"getStat", "exit0"} => passed = WellFormedBefore(stream)

\* C9: for any input, however many well-formed records it holds, the read
\* loop never stores outside list[0..999] and the count passed to getStat
\* never exceeds 1000.
C9_CapRespected == ~oob /\ passed <= ListCap

====
